---- MODULE Spec2Model ----
(***************************************************************************)
(* Outbound webhook delivery subsystem of orderHub (WebhookService and the *)
(* tRPC procedures that drive it).  Every request handler is an async      *)
(* function: it runs on a worker, and each of its awaits (a database call  *)
(* or the HTTP exchange) is one atomic step, so handlers of different      *)
(* workers interleave between their awaits exactly as they do on the       *)
(* Node.js event loop and across server instances.                         *)
(***************************************************************************)
EXTENDS Integers, Sequences, FiniteSets, TLC

(***************************************************************************)
(* Bounds of the model.                                                    *)
(***************************************************************************)
\* Events of a run that come from outside the service: deliverWebhook,
\* retryDelivery and processRetryQueue requests, customer updates, database
\* calls that reject, clock advances.
MaxEvents == 2
MaxDeliveries == 1      \* delivery records in the store

(***************************************************************************)
(* Program constants.                                                      *)
(***************************************************************************)
MAX_RETRIES == 20       \* WebhookService.MAX_RETRIES
SWEEP_BATCH == 50       \* processRetryQueue: take 50
BACKOFF_CAP == 60       \* calculateNextRetry: Math.min(2^n, 60) seconds
\* One clock advance: the longest backoff delay (60 s plus 10 % jitter), so a
\* retry scheduled before the advance is due after it.
TickMs == BACKOFF_CAP * 1100

Workers == {"w1", "w2"}
Customers == {"c1", "c2"}
Orders == {"o1", "o2"}
OrderIds == Orders \cup {"o_missing"}
EventTypes == {"order.completed"}

\* Prisma's null and JavaScript's undefined, for number and for string columns.
Null == -1
Undefined == -2
NullStr == "null"
UndefinedStr == "undefined"
NoSecret == "no-secret"
NoDelivery == 0

(***************************************************************************)
(* Read model owned by the CRUD layer: customers and orders.               *)
(***************************************************************************)
CustomerRows ==
  [c \in Customers |->
     IF c = "c1"
       THEN [id |-> "c1", webhookUrl |-> "https://c1/hook", webhookNotifications |-> TRUE]
       ELSE [id |-> "c2", webhookUrl |-> "https://c2/hook", webhookNotifications |-> FALSE]]

OrderRows ==
  [o \in Orders |->
     IF o = "o1"
       THEN [id |-> "o1", externalOrderId |-> "ext-1", customerId |-> "c1",
             status |-> "COMPLETED", processedAt |-> Null, processingNotes |-> NullStr]
       ELSE [id |-> "o2", externalOrderId |-> "ext-2", customerId |-> "c2",
             status |-> "COMPLETED", processedAt |-> Null, processingNotes |-> "note"]]

VARIABLES
  now,          \* Date.now(), in milliseconds
  customers,    \* table customers
  secrets,      \* table webhook_secrets: customerId -> secret
  nextSecret,   \* number of secrets crypto.randomBytes has produced and stored
  deliveries,   \* table webhook_deliveries, a record's id is its index
  worker,       \* per worker: the handler it runs, its position and its locals
  sent,         \* per delivery id: HTTP requests issued for it
  wire,         \* the last HTTP request this run put on the wire
  events,       \* requests, rejected database calls and clock advances so far
  rateLimitStore,   \* lib/rate-limit: Map from window key to {count, resetTime}
  admitted      \* per customer: order submissions the rate limiter let through

vars == <<now, customers, secrets, nextSecret, deliveries, worker, sent, wire, events,
          rateLimitStore, admitted>>


(***************************************************************************)
(* Pure functions of the service.                                          *)
(***************************************************************************)

\* crypto.createHmac("sha256", secret).update(payload).digest("hex"): an ideal
\* MAC, equal for two inputs exactly when key and message are equal.
generateSignature(payload, secret) == [mac |-> "hmac-sha256", key |-> secret, msg |-> payload]

\* The X-Webhook-Signature header value, `sha256=${signature}`.
SignatureHeader(signature) == [scheme |-> "sha256=", hex |-> signature]

\* A JavaScript object is the sequence of its <<key, value>> properties in
\* insertion order; a property whose value is undefined is left out by both
\* JSON.stringify and Prisma's Json input.
DropUndefined(obj) == SelectSeq(obj, LAMBDA kv : kv[2] # UndefinedStr)

\* JSON.stringify(obj): the properties in the object's own order.
JsonStringify(obj) == [json |-> DropUndefined(obj)]

\* PostgreSQL jsonb key order (shorter keys first, equal lengths bytewise) of
\* the keys of a WebhookPayload.
JsonbKeyOrder ==
  << "event", "items", "status", "orderId", "pricing", "metadata",
     "processedAt", "internalOrderId", "processingNotes" >>

RECURSIVE JsonbSort(_, _)
JsonbSort(obj, i) ==
  IF i > Len(JsonbKeyOrder) THEN << >>
  ELSE SelectSeq(obj, LAMBDA kv : kv[1] = JsonbKeyOrder[i]) \o JsonbSort(obj, i + 1)

\* What a Json column gives back for an object written to it: the column is
\* jsonb, which keeps the properties but not the order they were written in.
JsonColumnRoundTrip(obj) == JsonbSort(DropUndefined(obj), 1)

\* Date.prototype.toISOString
toISOString(t) == ToString(t)

\* createWebhookPayload(order, eventType), built at time t.
createWebhookPayload(order, eventType, t) ==
  << <<"event", eventType>>,
     <<"orderId", order.externalOrderId>>,
     <<"internalOrderId", order.id>>,
     <<"status", order.status>>,
     <<"processedAt", IF order.processedAt # Null
                        THEN toISOString(order.processedAt) ELSE toISOString(t)>>,
     <<"pricing", "pricing-of-" \o order.id>>,
     <<"items", "items-of-" \o order.id>>,
     <<"processingNotes", IF order.processingNotes # NullStr
                            THEN order.processingNotes ELSE UndefinedStr>>,
     <<"metadata", "webhook/1.0.0@" \o toISOString(t)>> >>

RECURSIVE Pow2(_)
Pow2(n) == IF n = 0 THEN 1 ELSE 2 * Pow2(n - 1)

Min(a, b) == IF a < b THEN a ELSE b

\* Math.random(), in thousandths.
RandomSamples == {0, 999}

\* Mutant: the base delay is not clamped.
calculateNextRetry_Unclamped(attemptCount, t, r) ==
  LET baseDelay == Pow2(attemptCount)
      jitterMs  == (r * baseDelay) \div 10
  IN  t + baseDelay * 1000 + jitterMs

\* calculateNextRetry(attemptCount) at time t with Math.random() = r / 1000:
\* baseDelay = min(2^attemptCount, 60) s, jitter = random * 0.1 * baseDelay.
calculateNextRetry(attemptCount, t, r) ==
  LET baseDelay == Min(Pow2(attemptCount), BACKOFF_CAP)
      jitterMs  == (r * baseDelay) \div 10
  IN  t + baseDelay * 1000 + jitterMs

\* How the customer's endpoint behaves on one request: it answers with a
\* status and a body, it sends nothing until the abort timer fires, or it
\* answers 200 and the connection breaks while the body is read.
Behaviours == {"http200", "http204", "http503", "timeout", "bodyError"}

\* What `await fetch(...)` gives: a response, or the Error it rejects with.
fetch(behaviour) ==
  CASE behaviour = "http200"   -> [rejects |-> FALSE, status |-> 200, body |-> "OK"]
    [] behaviour = "http204"   -> [rejects |-> FALSE, status |-> 204, body |-> ""]
    [] behaviour = "http503"   -> [rejects |-> FALSE, status |-> 503, body |-> "Service Unavailable"]
    [] behaviour = "bodyError" -> [rejects |-> FALSE, status |-> 200, body |-> UndefinedStr]
    [] behaviour = "timeout"   -> [rejects |-> TRUE, message |-> "This operation was aborted"]

\* Mutant: every response counts as ok.
responseOk_AnyStatus(status) == TRUE

\* Response.ok
responseOk(status) == status >= 200 /\ status <= 299

\* sendWebhookRequest: the try block up to its return, and the catch that
\* turns a rejected fetch or a rejected response.text() into a result.
sendWebhookRequest(behaviour) ==
  LET response == fetch(behaviour) IN
  IF response.rejects
    THEN [success |-> FALSE, status |-> Undefined, responseBody |-> UndefinedStr,
          error |-> response.message]
  ELSE IF response.body = UndefinedStr
    THEN [success |-> FALSE, status |-> Undefined, responseBody |-> UndefinedStr,
          error |-> "terminated"]
  ELSE [success |-> responseOk(response.status), status |-> response.status,
        responseBody |-> response.body, error |-> UndefinedStr]

\* Prisma update data: a column given undefined keeps its value.
PrismaSet(old, new) == IF new = Undefined THEN old ELSE new
PrismaSetStr(old, new) == IF new = UndefinedStr THEN old ELSE new


(***************************************************************************)
(* State.                                                                  *)
(***************************************************************************)
NoOrder == [id |-> "none"]
NoCustomer == [id |-> "none"]
NoSignature == [mac |-> "none"]
NoSnapshot == [id |-> NoDelivery]
NoRequest == [deliveryId |-> NoDelivery]

\* A worker that runs no handler.
IdleWorker ==
  [pc |-> "idle", op |-> "none", customerId |-> "none", orderId |-> "none",
   eventType |-> "none", order |-> NoOrder, customer |-> NoCustomer, payload |-> << >>,
   signature |-> NoSignature, deliveryId |-> NoDelivery, delivery |-> NoSnapshot,
   queue |-> << >>, result |-> "none", effects |-> {}, args |-> << >>]

DeliveryIds == DOMAIN deliveries

\* Mutant: only SUCCESS counts as completed.
IsCompleted_SuccessOnly(status) == status = "SUCCESS"

\* delivery.status === "SUCCESS" || delivery.status === "ABANDONED"
IsCompleted(status) == status = "SUCCESS" \/ status = "ABANDONED"

\* Handlers between deliverWebhook's entry and its webhookDelivery.create.
CreatingWorkers ==
  {w \in Workers : worker[w].op = "deliver"
                     /\ worker[w].pc \in {"deliver_findOrder", "secret_find",
                                          "secret_create", "deliver_create"}}

(***************************************************************************)
(* deliverWebhook(customerId, orderId, eventType)                          *)
(***************************************************************************)
CallDeliverWebhook(w, customerId, orderId, eventType) ==
  /\ worker[w].pc = "idle"
  /\ events < MaxEvents
  /\ Len(deliveries) + Cardinality(CreatingWorkers) < MaxDeliveries
  /\ events' = events + 1
  /\ worker' = [worker EXCEPT ![w] =
       [IdleWorker EXCEPT !.pc = "deliver_findOrder", !.op = "deliver",
                          !.customerId = customerId, !.orderId = orderId,
                          !.eventType = eventType]]
  /\ UNCHANGED <<now, customers, secrets, nextSecret, deliveries, sent, wire>>
  /\ UNCHANGED <<rateLimitStore, admitted>>

\* Mutant: the notifications guard is missing.
NotificationsDisabled_Unchecked(order) == FALSE

\* order.customer.webhookNotifications is off.
NotificationsDisabled(order) == ~order.customer.webhookNotifications

\* db.order.findUnique with its customer, the two guards, createWebhookPayload.
DeliverFindOrder(w) ==
  LET wr == worker[w] IN
  /\ wr.pc = "deliver_findOrder"
  /\ worker' = [worker EXCEPT ![w] =
       IF wr.orderId \notin Orders
         THEN [wr EXCEPT !.pc = "done", !.result = "NOT_FOUND"]
       ELSE LET row   == OrderRows[wr.orderId]
                order == [id |-> row.id, externalOrderId |-> row.externalOrderId,
                          customerId |-> row.customerId, status |-> row.status,
                          processedAt |-> row.processedAt,
                          processingNotes |-> row.processingNotes,
                          customer |-> customers[row.customerId]]
            IN IF NotificationsDisabled(order)
                 THEN [wr EXCEPT !.pc = "done", !.result = "BAD_REQUEST", !.order = order]
                 ELSE [wr EXCEPT !.pc = "secret_find", !.order = order,
                         !.payload = createWebhookPayload(order, wr.eventType, now)]]
  /\ UNCHANGED <<now, customers, secrets, nextSecret, deliveries, sent, wire, events>>
  /\ UNCHANGED <<rateLimitStore, admitted>>

\* Where a handler goes on once getWebhookSecret has returned: deliverWebhook
\* and testWebhookEndpoint both sign JSON.stringify of their payload.
AfterSecret(wr, secret) ==
  [wr EXCEPT !.pc = IF wr.op = "test" THEN "test_send" ELSE "deliver_create",
             !.signature = generateSignature(JsonStringify(wr.payload), secret)]

\* getWebhookSecret: db.webhookSecret.findUnique.
GetSecretFind(w) ==
  LET wr == worker[w] IN
  /\ wr.pc = "secret_find"
  /\ worker' = [worker EXCEPT ![w] =
       IF secrets[wr.customerId] # NoSecret
         THEN AfterSecret(wr, secrets[wr.customerId])
         ELSE [wr EXCEPT !.pc = "secret_create"]]
  /\ UNCHANGED <<now, customers, secrets, nextSecret, deliveries, sent, wire, events>>
  /\ UNCHANGED <<rateLimitStore, admitted>>

\* crypto.randomBytes(32).toString("hex"): a value no earlier call produced.
randomSecret(n) == "secret-" \o ToString(n + 1)

\* Mutant: the create replaces the secret of a customer that has one.
GetSecretCreate_Replaces(w) ==
  LET wr == worker[w] IN
  /\ wr.pc = "secret_create"
  /\ secrets' = [secrets EXCEPT ![wr.customerId] = randomSecret(nextSecret)]
  /\ nextSecret' = nextSecret + 1
  /\ worker' = [worker EXCEPT ![w] =
       [AfterSecret(wr, randomSecret(nextSecret))
          EXCEPT !.effects = wr.effects \cup {"secret"}]]
  /\ UNCHANGED <<now, customers, deliveries, sent, wire, events>>
  /\ UNCHANGED <<rateLimitStore, admitted>>

\* getWebhookSecret: db.webhookSecret.create.  customerId is the primary key,
\* so the insert fails when a row for the customer exists by now; the catch
\* turns that into INTERNAL_SERVER_ERROR.
GetSecretCreate(w) ==
  LET wr == worker[w] IN
  /\ wr.pc = "secret_create"
  /\ IF secrets[wr.customerId] # NoSecret
       THEN /\ worker' = [worker EXCEPT ![w] =
                 [wr EXCEPT !.pc = "done", !.result = "INTERNAL_SERVER_ERROR"]]
            /\ UNCHANGED <<secrets, nextSecret>>
       ELSE /\ secrets' = [secrets EXCEPT ![wr.customerId] = randomSecret(nextSecret)]
            /\ nextSecret' = nextSecret + 1
            /\ worker' = [worker EXCEPT ![w] =
                 [AfterSecret(wr, randomSecret(nextSecret))
                    EXCEPT !.effects = wr.effects \cup {"secret"}]]
  /\ UNCHANGED <<now, customers, deliveries, sent, wire, events>>
  /\ UNCHANGED <<rateLimitStore, admitted>>

\* The row db.webhookDelivery.create inserts, with the schema's defaults.
NewDelivery(id, wr, t) ==
  [id |-> id, customerId |-> wr.customerId, orderId |-> wr.orderId,
   eventType |-> wr.eventType, webhookUrl |-> wr.order.customer.webhookUrl,
   payload |-> JsonColumnRoundTrip(wr.payload), signature |-> wr.signature,
   status |-> "PENDING", httpStatus |-> Null, responseBody |-> NullStr,
   errorMessage |-> NullStr, attemptCount |-> 0, maxRetries |-> MAX_RETRIES,
   nextRetryAt |-> Null, createdAt |-> t, completedAt |-> Null]

\* Mutant: deliverWebhook returns the created row without attempting it.
DeliverCreate_NoAttempt(w) ==
  LET wr == worker[w]
      id == Len(deliveries) + 1
  IN
  /\ wr.pc = "deliver_create"
  /\ deliveries' = Append(deliveries, NewDelivery(id, wr, now))
  /\ sent' = Append(sent, [requests |-> 0, succeeded |-> FALSE])
  /\ worker' = [worker EXCEPT ![w] =
       [wr EXCEPT !.pc = "done", !.result = "ok", !.deliveryId = id,
                  !.payload = << >>, !.signature = NoSignature,
                  !.effects = wr.effects \cup {"record"}]]
  /\ UNCHANGED <<now, customers, secrets, nextSecret, wire, events>>
  /\ UNCHANGED <<rateLimitStore, admitted>>

\* db.webhookDelivery.create, then the call of attemptDelivery(delivery.id);
\* deliverWebhook reads neither its payload nor its signature afterwards.
DeliverCreate(w) ==
  LET wr == worker[w]
      id == Len(deliveries) + 1
  IN
  /\ wr.pc = "deliver_create"
  /\ deliveries' = Append(deliveries, NewDelivery(id, wr, now))
  /\ sent' = Append(sent, [requests |-> 0, succeeded |-> FALSE])
  /\ worker' = [worker EXCEPT ![w] =
       [wr EXCEPT !.pc = "attempt_find", !.deliveryId = id,
                  !.payload = << >>, !.signature = NoSignature,
                  !.effects = wr.effects \cup {"record"}]]
  /\ UNCHANGED <<now, customers, secrets, nextSecret, wire, events>>
  /\ UNCHANGED <<rateLimitStore, admitted>>


(***************************************************************************)
(* attemptDelivery(deliveryId)                                             *)
(***************************************************************************)

\* processRetryQueue's loop: the next delivery of the batch, or the end.
SweepNext(wr) ==
  IF wr.queue = << >>
    THEN [wr EXCEPT !.pc = "done", !.result = "ok"]
    ELSE [wr EXCEPT !.pc = "attempt_find", !.deliveryId = Head(wr.queue),
                    !.queue = Tail(wr.queue), !.delivery = NoSnapshot]

\* attemptDelivery returned: deliverWebhook and retryDelivery return, the
\* sweep goes on with its batch.
AttemptReturned(wr) ==
  IF wr.op = "sweep" THEN SweepNext(wr) ELSE [wr EXCEPT !.pc = "done", !.result = "ok"]

\* Mutant: the sweep has no catch around attemptDelivery.
AttemptThrew_Aborts(wr, err) == [wr EXCEPT !.pc = "done", !.result = err]

\* attemptDelivery threw: deliverWebhook and retryDelivery pass the error on,
\* the sweep's catch logs it and goes on with its batch.
AttemptThrew(wr, err) ==
  IF wr.op = "sweep" THEN SweepNext(wr) ELSE [wr EXCEPT !.pc = "done", !.result = err]

\* What attemptDelivery uses, after its findUnique, of the row it read.
Read(row) ==
  [id |-> row.id, customerId |-> row.customerId, orderId |-> row.orderId,
   webhookUrl |-> row.webhookUrl, payload |-> row.payload,
   signature |-> row.signature, attemptCount |-> row.attemptCount,
   maxRetries |-> row.maxRetries]

\* Mutant: the request goes to the customer's current webhook URL.
Request_CurrentUrl(delivery) ==
  [deliveryId |-> delivery.id, url |-> customers[delivery.customerId].webhookUrl,
   body |-> JsonStringify(delivery.payload),
   signature |-> SignatureHeader(delivery.signature)]

\* The HTTP request sendWebhookRequest issues for a delivery row.
Request(delivery) ==
  [deliveryId |-> delivery.id, url |-> delivery.webhookUrl,
   body |-> JsonStringify(delivery.payload),
   signature |-> SignatureHeader(delivery.signature)]

\* db.webhookDelivery.findUnique, the guards, and the fetch that follows them
\* without an await in between.
AttemptFind(w) ==
  LET wr == worker[w]
      id == wr.deliveryId
  IN
  /\ wr.pc = "attempt_find"
  /\ IF id \notin DeliveryIds
       THEN /\ worker' = [worker EXCEPT ![w] = AttemptThrew(wr, "NOT_FOUND")]
            /\ UNCHANGED <<sent, wire>>
     ELSE IF IsCompleted(deliveries[id].status)
       THEN /\ worker' = [worker EXCEPT ![w] = AttemptReturned(wr)]
            /\ UNCHANGED <<sent, wire>>
       ELSE /\ worker' = [worker EXCEPT ![w] =
                 [wr EXCEPT !.pc = "attempt_update", !.delivery = Read(deliveries[id]),
                            !.effects = wr.effects \cup {"http"}]]
            /\ sent' = [sent EXCEPT ![id].requests = @ + 1]
            /\ wire' = Request(deliveries[id])
  /\ UNCHANGED <<now, customers, secrets, nextSecret, deliveries, events>>
  /\ UNCHANGED <<rateLimitStore, admitted>>

\* Mutant: the ceiling comparison is off by one.
ShouldRetry_OffByOne(newAttemptCount, maxRetries) == newAttemptCount <= maxRetries

\* newAttemptCount < delivery.maxRetries
ShouldRetry(newAttemptCount, maxRetries) == newAttemptCount < maxRetries

\* Mutant: the success branch leaves nextRetryAt as it is.
SuccessUpdate_KeepsSchedule(row, result, newAttemptCount, t) ==
  [row EXCEPT !.status = "SUCCESS",
              !.httpStatus = PrismaSet(@, result.status),
              !.responseBody = PrismaSetStr(@, result.responseBody),
              !.attemptCount = newAttemptCount,
              !.completedAt = t]

\* The update of the success branch.
SuccessUpdate(row, result, newAttemptCount, t) ==
  [row EXCEPT !.status = "SUCCESS",
              !.httpStatus = PrismaSet(@, result.status),
              !.responseBody = PrismaSetStr(@, result.responseBody),
              !.attemptCount = newAttemptCount,
              !.completedAt = t,
              !.nextRetryAt = Null]

\* Mutant: the failure branch schedules a retry also when it abandons.
FailureUpdate_AlwaysSchedules(row, result, newAttemptCount, shouldRetry, t, r) ==
  [row EXCEPT !.status = IF shouldRetry THEN "RETRYING" ELSE "ABANDONED",
              !.httpStatus = PrismaSet(@, result.status),
              !.responseBody = PrismaSetStr(@, result.responseBody),
              !.errorMessage = PrismaSetStr(@, result.error),
              !.attemptCount = newAttemptCount,
              !.nextRetryAt = calculateNextRetry(newAttemptCount, t, r),
              !.completedAt = IF shouldRetry THEN Null ELSE t]

\* Mutant: the failure branch leaves completedAt as it is when it retries.
FailureUpdate_KeepsCompletedAt(row, result, newAttemptCount, shouldRetry, t, r) ==
  [row EXCEPT !.status = IF shouldRetry THEN "RETRYING" ELSE "ABANDONED",
              !.httpStatus = PrismaSet(@, result.status),
              !.responseBody = PrismaSetStr(@, result.responseBody),
              !.errorMessage = PrismaSetStr(@, result.error),
              !.attemptCount = newAttemptCount,
              !.nextRetryAt = IF shouldRetry
                                THEN calculateNextRetry(newAttemptCount, t, r) ELSE Null,
              !.completedAt = IF shouldRetry THEN @ ELSE t]

\* The update of the failure branch.
FailureUpdate(row, result, newAttemptCount, shouldRetry, t, r) ==
  [row EXCEPT !.status = IF shouldRetry THEN "RETRYING" ELSE "ABANDONED",
              !.httpStatus = PrismaSet(@, result.status),
              !.responseBody = PrismaSetStr(@, result.responseBody),
              !.errorMessage = PrismaSetStr(@, result.error),
              !.attemptCount = newAttemptCount,
              !.nextRetryAt = IF shouldRetry
                                THEN calculateNextRetry(newAttemptCount, t, r) ELSE Null,
              !.completedAt = IF shouldRetry THEN Null ELSE t]

\* The row attemptDelivery writes: it is computed from the row it read, and
\* written where id = deliveryId whatever the stored row is by then.
AttemptWrite(stored, read, result, t, r) ==
  LET newAttemptCount == read.attemptCount + 1 IN
  IF result.success
    THEN SuccessUpdate(stored, result, newAttemptCount, t)
    ELSE FailureUpdate(stored, result, newAttemptCount,
                       ShouldRetry(newAttemptCount, read.maxRetries), t, r)

\* The endpoint answers (or the fetch fails) and db.webhookDelivery.update runs.
AttemptUpdate(w, behaviour, r) ==
  LET wr     == worker[w]
      id     == wr.deliveryId
      result == sendWebhookRequest(behaviour)
  IN
  /\ wr.pc = "attempt_update"
  /\ deliveries' = [deliveries EXCEPT ![id] = AttemptWrite(@, wr.delivery, result, now, r)]
  /\ sent' = [sent EXCEPT ![id].succeeded = @ \/ result.success]
  /\ worker' = [worker EXCEPT ![w] = AttemptReturned(wr)]
  /\ UNCHANGED <<now, customers, secrets, nextSecret, wire, events>>
  /\ UNCHANGED <<rateLimitStore, admitted>>

(***************************************************************************)
(* webhookRouter.retryDelivery                                             *)
(***************************************************************************)
CallRetryDelivery(w, deliveryId) ==
  /\ worker[w].pc = "idle"
  /\ events < MaxEvents
  /\ events' = events + 1
  /\ worker' = [worker EXCEPT ![w] =
       [IdleWorker EXCEPT !.pc = "attempt_find", !.op = "retry",
                          !.deliveryId = deliveryId]]
  /\ UNCHANGED <<now, customers, secrets, nextSecret, deliveries, sent, wire>>
  /\ UNCHANGED <<rateLimitStore, admitted>>

(***************************************************************************)
(* processRetryQueue                                                       *)
(***************************************************************************)
CallProcessRetryQueue(w) ==
  /\ worker[w].pc = "idle"
  /\ events < MaxEvents
  /\ events' = events + 1
  /\ worker' = [worker EXCEPT ![w] =
       [IdleWorker EXCEPT !.pc = "sweep_query", !.op = "sweep"]]
  /\ UNCHANGED <<now, customers, secrets, nextSecret, deliveries, sent, wire>>
  /\ UNCHANGED <<rateLimitStore, admitted>>

\* The scheduler that runs the sweep at a fixed interval.  The repository has no
\* scheduler of its own: it enters the same procedure as an operator's request
\* and is assumed only where progress is claimed.
PeriodicSweep(w) ==
  /\ worker[w].pc = "idle"
  /\ worker' = [worker EXCEPT ![w] =
       [IdleWorker EXCEPT !.pc = "sweep_query", !.op = "sweep"]]
  /\ UNCHANGED <<now, customers, secrets, nextSecret, deliveries, sent, wire, events>>
  /\ UNCHANGED <<rateLimitStore, admitted>>

\* Mutant: the query selects every RETRYING row, due or not.
DueIds_AnyRetrying(t) == {d \in DeliveryIds : deliveries[d].status = "RETRYING"}

\* where: status RETRYING and nextRetryAt <= new Date()
DueIds(t) ==
  {d \in DeliveryIds : /\ deliveries[d].status = "RETRYING"
                       /\ deliveries[d].nextRetryAt # Null
                       /\ deliveries[d].nextRetryAt <= t}

\* findMany with take and no orderBy: any SWEEP_BATCH of the matching rows, in
\* any order.
Batches(S) ==
  LET n == Min(Cardinality(S), SWEEP_BATCH) IN
  {q \in [1..n -> S] : \A i, j \in 1..n : i # j => q[i] # q[j]}

SweepQuery(w) ==
  LET wr == worker[w] IN
  /\ wr.pc = "sweep_query"
  /\ \E q \in Batches(DueIds(now)) :
       worker' = [worker EXCEPT ![w] = SweepNext([wr EXCEPT !.queue = q])]
  /\ UNCHANGED <<now, customers, secrets, nextSecret, deliveries, sent, wire, events>>
  /\ UNCHANGED <<rateLimitStore, admitted>>

(***************************************************************************)
(* testWebhookEndpoint(customerId)                                         *)
(***************************************************************************)
CustomerIds == Customers \cup {"c_missing"}

CallTestEndpoint(w, customerId) ==
  /\ worker[w].pc = "idle"
  /\ events < MaxEvents
  /\ events' = events + 1
  /\ worker' = [worker EXCEPT ![w] =
       [IdleWorker EXCEPT !.pc = "test_findCustomer", !.op = "test",
                          !.customerId = customerId]]
  /\ UNCHANGED <<now, customers, secrets, nextSecret, deliveries, sent, wire>>
  /\ UNCHANGED <<rateLimitStore, admitted>>

\* The test payload, built at time t.
testPayload(t) ==
  << <<"event", "order.status_changed">>,
     <<"orderId", "test_order_123">>,
     <<"internalOrderId", "test_internal_456">>,
     <<"status", "COMPLETED">>,
     <<"processedAt", toISOString(t)>>,
     <<"items", "test_item_1">>,
     <<"processingNotes", "This is a test webhook">>,
     <<"metadata", "webhook/1.0.0@" \o toISOString(t)>> >>

\* db.customer.findUnique, the guard, the test payload.
TestFindCustomer(w) ==
  LET wr == worker[w] IN
  /\ wr.pc = "test_findCustomer"
  /\ worker' = [worker EXCEPT ![w] =
       IF wr.customerId \notin Customers
         THEN [wr EXCEPT !.pc = "done", !.result = "Customer not found"]
         ELSE [wr EXCEPT !.pc = "secret_find", !.customer = customers[wr.customerId],
                         !.payload = testPayload(now)]]
  /\ UNCHANGED <<now, customers, secrets, nextSecret, deliveries, sent, wire, events>>
  /\ UNCHANGED <<rateLimitStore, admitted>>

\* The request testWebhookEndpoint sends: the payload itself, not a stored copy.
TestRequest(wr) ==
  [deliveryId |-> NoDelivery, url |-> wr.customer.webhookUrl,
   body |-> JsonStringify(wr.payload), signature |-> SignatureHeader(wr.signature)]

\* Mutant: the test is recorded as a delivery.
TestSend_Recorded(w, behaviour) ==
  LET wr     == worker[w]
      result == sendWebhookRequest(behaviour)
  IN
  /\ wr.pc = "test_send"
  /\ Len(deliveries) < MaxDeliveries
  /\ wire' = TestRequest(wr)
  /\ deliveries' = Append(deliveries,
       [NewDelivery(Len(deliveries) + 1, [wr EXCEPT !.order = [customer |-> wr.customer]], now)
          EXCEPT !.status = IF result.success THEN "SUCCESS" ELSE "ABANDONED"])
  /\ sent' = Append(sent, [requests |-> 1, succeeded |-> result.success])
  /\ worker' = [worker EXCEPT ![w] =
       [wr EXCEPT !.pc = "done",
                  !.result = IF result.success THEN "test succeeded" ELSE "test failed",
                  !.effects = wr.effects \cup {"http"}]]
  /\ UNCHANGED <<now, customers, secrets, nextSecret, events>>
  /\ UNCHANGED <<rateLimitStore, admitted>>

\* sendWebhookRequest and the return of its result.
TestSend(w, behaviour) ==
  LET wr     == worker[w]
      result == sendWebhookRequest(behaviour)
  IN
  /\ wr.pc = "test_send"
  /\ wire' = TestRequest(wr)
  /\ worker' = [worker EXCEPT ![w] =
       [wr EXCEPT !.pc = "done",
                  !.result = IF result.success THEN "test succeeded" ELSE "test failed",
                  !.effects = wr.effects \cup {"http"}]]
  /\ UNCHANGED <<now, customers, secrets, nextSecret, deliveries, sent, events>>
  /\ UNCHANGED <<rateLimitStore, admitted>>

(***************************************************************************)
(* sendWebhookRequest that does not return                                 *)
(***************************************************************************)

\* The endpoint answers with its status line and headers and never finishes
\* the body: fetch resolves, clearTimeout cancels the abort timer, and
\* `await response.text()` stays pending.
SendStalls(w) ==
  LET wr == worker[w] IN
  /\ wr.pc \in {"attempt_update", "test_send"}
  /\ wire' = IF wr.pc = "test_send" THEN TestRequest(wr) ELSE wire
  /\ worker' = [worker EXCEPT ![w] =
       [wr EXCEPT !.pc = "send_text", !.effects = wr.effects \cup {"http"}]]
  /\ UNCHANGED <<now, customers, secrets, nextSecret, deliveries, sent, events>>
  /\ UNCHANGED <<rateLimitStore, admitted>>

(***************************************************************************)
(* webhookRouter.regenerateSecret                                          *)
(***************************************************************************)
CallRegenerateSecret(w, customerId) ==
  /\ worker[w].pc = "idle"
  /\ events < MaxEvents
  /\ events' = events + 1
  /\ worker' = [worker EXCEPT ![w] =
       [IdleWorker EXCEPT !.pc = "regen_delete", !.op = "regenerate",
                          !.customerId = customerId]]
  /\ UNCHANGED <<now, customers, secrets, nextSecret, deliveries, sent, wire>>
  /\ UNCHANGED <<rateLimitStore, admitted>>

\* db.webhookSecret.deleteMany({ where: { customerId } }); args keeps the
\* secret the customer had until then.
RegenerateDelete(w) ==
  LET wr == worker[w] IN
  /\ wr.pc = "regen_delete"
  /\ secrets' = [secrets EXCEPT ![wr.customerId] = NoSecret]
  /\ worker' = [worker EXCEPT ![w] =
       [wr EXCEPT !.pc = "regen_create", !.args = <<secrets[wr.customerId]>>]]
  /\ UNCHANGED <<now, customers, nextSecret, deliveries, sent, wire, events>>
  /\ UNCHANGED <<rateLimitStore, admitted>>

\* crypto.randomBytes and db.webhookSecret.create, in a statement of its own
\* after the delete: the insert fails when a row for the customer exists by
\* now, and the catch turns that into INTERNAL_SERVER_ERROR.
RegenerateCreate(w) ==
  LET wr == worker[w] IN
  /\ wr.pc = "regen_create"
  /\ IF secrets[wr.customerId] # NoSecret
       THEN /\ worker' = [worker EXCEPT ![w] =
                 [wr EXCEPT !.pc = "done", !.result = "INTERNAL_SERVER_ERROR"]]
            /\ UNCHANGED <<secrets, nextSecret>>
       ELSE /\ secrets' = [secrets EXCEPT ![wr.customerId] = randomSecret(nextSecret)]
            /\ nextSecret' = nextSecret + 1
            /\ worker' = [worker EXCEPT ![w] =
                 [wr EXCEPT !.pc = "done", !.result = "ok",
                            !.args = Append(wr.args, randomSecret(nextSecret)),
                            !.effects = wr.effects \cup {"secret"}]]
  /\ UNCHANGED <<now, customers, deliveries, sent, wire, events>>
  /\ UNCHANGED <<rateLimitStore, admitted>>

(***************************************************************************)
(* customerRouter.update                                                   *)
(***************************************************************************)

\* Webhook URLs an administrator can give a customer.
WebhookUrls(c) == {CustomerRows[c].webhookUrl, CustomerRows[c].webhookUrl \o "-v2"}

\* db.customer.update({ where: { id }, data: { webhookUrl } }); the findUnique
\* before it only checks that the customer exists.
UpdateCustomer(c, webhookUrl) ==
  /\ events < MaxEvents
  /\ customers[c].webhookUrl # webhookUrl
  /\ events' = events + 1
  /\ customers' = [customers EXCEPT ![c].webhookUrl = webhookUrl]
  /\ UNCHANGED <<now, secrets, nextSecret, deliveries, worker, sent, wire>>
  /\ UNCHANGED <<rateLimitStore, admitted>>

(***************************************************************************)
(* Environment: storage errors, the return to the caller, the clock.       *)
(***************************************************************************)

\* Mutant: a rejected database call is logged and the handler reports success.
StorageError_Swallowed(w) ==
  LET wr == worker[w] IN
  /\ wr.pc \in {"deliver_findOrder", "secret_find", "secret_create", "deliver_create",
                "attempt_find", "attempt_update", "sweep_query", "test_findCustomer",
                "regen_delete", "regen_create"}
  /\ events < MaxEvents
  /\ events' = events + 1
  /\ worker' = [worker EXCEPT ![w] = [wr EXCEPT !.pc = "done", !.result = "ok"]]
  /\ UNCHANGED <<now, customers, secrets, nextSecret, deliveries, sent, wire>>
  /\ UNCHANGED <<rateLimitStore, admitted>>

\* The database call a handler is waiting on rejects.
StorageError(w) ==
  LET wr == worker[w] IN
  /\ wr.pc \in {"deliver_findOrder", "secret_find", "secret_create", "deliver_create",
                "attempt_find", "attempt_update", "sweep_query", "test_findCustomer",
                "regen_delete", "regen_create"}
  /\ events < MaxEvents
  /\ events' = events + 1
  /\ worker' = [worker EXCEPT ![w] =
       CASE wr.pc \in {"secret_find", "secret_create"} ->
              [wr EXCEPT !.pc = "done", !.result = "INTERNAL_SERVER_ERROR"]
         [] wr.pc \in {"attempt_find", "attempt_update"} ->
              AttemptThrew(wr, "DB_ERROR")
         [] wr.pc \in {"test_findCustomer", "regen_delete", "regen_create"} ->
              [wr EXCEPT !.pc = "done", !.result = "INTERNAL_SERVER_ERROR"]
         [] OTHER ->
              [wr EXCEPT !.pc = "done", !.result = "DB_ERROR"]]
  /\ UNCHANGED <<now, customers, secrets, nextSecret, deliveries, sent, wire>>
  /\ UNCHANGED <<rateLimitStore, admitted>>

\* The handler's promise settles and the worker is free again.
Return(w) ==
  /\ worker[w].pc = "done"
  /\ worker' = [worker EXCEPT ![w] = IdleWorker]
  /\ UNCHANGED <<now, customers, secrets, nextSecret, deliveries, sent, wire, events>>
  /\ UNCHANGED <<rateLimitStore, admitted>>

Tick ==
  /\ events < MaxEvents
  /\ events' = events + 1
  /\ now' = now + TickMs
  /\ UNCHANGED <<customers, secrets, nextSecret, deliveries, worker, sent, wire>>
  /\ UNCHANGED <<rateLimitStore, admitted>>

(***************************************************************************)
(* The store a run starts from: empty, or as deliverWebhook("c1", "o1") and *)
(* failed attempts of an earlier run left it.                              *)
(***************************************************************************)

\* The locals of the deliverWebhook call that created the seeded delivery.
SeedCall ==
  LET order == [id |-> "o1", externalOrderId |-> OrderRows["o1"].externalOrderId,
                customerId |-> "c1", status |-> OrderRows["o1"].status,
                processedAt |-> OrderRows["o1"].processedAt,
                processingNotes |-> OrderRows["o1"].processingNotes,
                customer |-> CustomerRows["c1"]]
  IN AfterSecret([IdleWorker EXCEPT !.op = "deliver", !.customerId = "c1",
                                    !.orderId = "o1", !.eventType = "order.completed",
                                    !.order = order,
                                    !.payload = createWebhookPayload(order, "order.completed", 0)],
                 randomSecret(0))

\* The seeded delivery after k attempts that were answered 503 at time 0.
RECURSIVE SeedDelivery(_, _)
SeedDelivery(k, r) ==
  IF k = 0 THEN NewDelivery(1, SeedCall, 0)
  ELSE LET before == SeedDelivery(k - 1, r)
       IN AttemptWrite(before, Read(before), sendWebhookRequest("http503"), 0, r)

\* Attempts the seeded delivery has behind it: none (the store is empty), its
\* first one, or all but the last one that maxRetries allows.
SeedCounts == {0, 1, MAX_RETRIES - 1}

Init ==
  /\ now = 0
  /\ customers = CustomerRows
  /\ worker = [w \in Workers |-> IdleWorker]
  /\ events = 0
  /\ wire = NoRequest
  /\ rateLimitStore = << >>
  /\ admitted = [c \in Customers |-> [at |-> 0, count |-> 0]]
  /\ \E k \in SeedCounts, r \in RandomSamples :
       IF k = 0
         THEN /\ r = 0
              /\ secrets = [c \in Customers |-> NoSecret]
              /\ nextSecret = 0
              /\ deliveries = << >>
              /\ sent = << >>
         ELSE /\ secrets = [c \in Customers |-> IF c = "c1" THEN randomSecret(0) ELSE NoSecret]
              /\ nextSecret = 1
              /\ deliveries = << SeedDelivery(k, r) >>
              /\ sent = << [requests |-> k, succeeded |-> FALSE] >>

Next ==
  \/ \E w \in Workers, c \in Customers, o \in OrderIds, e \in EventTypes :
       CallDeliverWebhook(w, c, o, e)
  \/ \E w \in Workers : DeliverFindOrder(w)
  \/ \E w \in Workers : GetSecretFind(w)
  \/ \E w \in Workers : GetSecretCreate(w)
  \/ \E w \in Workers : DeliverCreate(w)
  \/ \E w \in Workers : AttemptFind(w)
  \/ \E w \in Workers, b \in Behaviours, r \in RandomSamples : AttemptUpdate(w, b, r)
  \/ \E w \in Workers, d \in DeliveryIds \cup {NoDelivery} : CallRetryDelivery(w, d)
  \/ \E w \in Workers : CallProcessRetryQueue(w)
  \/ \E w \in Workers : SweepQuery(w)
  \/ \E w \in Workers, c \in CustomerIds : CallTestEndpoint(w, c)
  \/ \E w \in Workers : TestFindCustomer(w)
  \/ \E w \in Workers, b \in Behaviours : TestSend(w, b)
  \/ \E w \in Workers : SendStalls(w)
  \/ \E c \in Customers : \E u \in WebhookUrls(c) : UpdateCustomer(c, u)
  \/ \E w \in Workers : StorageError(w)
  \/ \E w \in Workers : Return(w)
  \/ Tick

Spec == Init /\ [][Next]_vars

\* The same procedures together with regenerateSecret.
RegenerateNext ==
  \/ Next
  \/ \E w \in Workers, c \in Customers : CallRegenerateSecret(w, c)
  \/ \E w \in Workers : RegenerateDelete(w)
  \/ \E w \in Workers : RegenerateCreate(w)

RegenerateSpec == Init /\ [][RegenerateNext]_vars


(***************************************************************************)
(* Fairness for the liveness claim: every awaited call settles, the sweep  *)
(* keeps being triggered and the clock keeps advancing.  Nothing obliges a *)
(* database call to reject, nor an administrator to call deliverWebhook or *)
(* retryDelivery.                                                          *)
(***************************************************************************)
EmptyInit ==
  /\ Init
  /\ deliveries = << >>

HandlerStep(w) ==
  \/ DeliverFindOrder(w)
  \/ GetSecretFind(w)
  \/ GetSecretCreate(w)
  \/ DeliverCreate(w)
  \/ AttemptFind(w)
  \/ \E b \in Behaviours, r \in RandomSamples : AttemptUpdate(w, b, r)
  \/ SweepQuery(w)
  \/ TestFindCustomer(w)
  \/ \E b \in Behaviours : TestSend(w, b)
  \/ Return(w)

Fairness ==
  /\ \A w \in Workers : WF_vars(HandlerStep(w))
  /\ WF_vars(\E w \in Workers : PeriodicSweep(w))
  /\ WF_vars(Tick)

LiveNext ==
  \/ Next
  \/ \E w \in Workers : PeriodicSweep(w)

LiveSpec == EmptyInit /\ [][LiveNext]_vars /\ Fairness

(***************************************************************************)
(* The retry queue on its own: a store with two deliveries waiting for     *)
(* their retry, swept by the workers while database calls may reject.      *)
(***************************************************************************)

\* The store after two deliverWebhook("c1", "o1") calls at time 0, the first
\* delivery with k failed attempts behind it and the second with one, at a
\* time when both retries are due.
SweepInit ==
  /\ now = TickMs
  /\ customers = CustomerRows
  /\ worker = [w \in Workers |-> IdleWorker]
  /\ events = 0
  /\ wire = NoRequest
  /\ rateLimitStore = << >>
  /\ admitted = [c \in Customers |-> [at |-> 0, count |-> 0]]
  /\ secrets = [c \in Customers |-> IF c = "c1" THEN randomSecret(0) ELSE NoSecret]
  /\ nextSecret = 1
  /\ \E k \in SeedCounts \ {0} :
       /\ deliveries = << SeedDelivery(k, 0), [SeedDelivery(1, 0) EXCEPT !.id = 2] >>
       /\ sent = << [requests |-> k, succeeded |-> FALSE],
                    [requests |-> 1, succeeded |-> FALSE] >>

SweepSpecNext ==
  \/ \E w \in Workers : CallProcessRetryQueue(w)
  \/ \E w \in Workers : SweepQuery(w)
  \/ \E w \in Workers : AttemptFind(w)
  \/ \E w \in Workers, b \in Behaviours, r \in RandomSamples : AttemptUpdate(w, b, r)
  \/ \E w \in Workers : StorageError(w)
  \/ \E w \in Workers : Return(w)

SweepSpec == SweepInit /\ [][SweepSpecNext]_vars

(***************************************************************************)
(* calculateNextRetry on its own, applied to every attempt number.         *)
(***************************************************************************)

\* Attempt numbers and Math.random() values (in thousandths) it is given.
AttemptNumbers == 0..(MAX_RETRIES + 1)
RandomValues == {0, 1, 500, 999}

CallCalculateNextRetry(w, attemptCount, r) ==
  /\ worker[w].pc = "idle"
  /\ worker' = [worker EXCEPT ![w] =
       [IdleWorker EXCEPT !.pc = "done", !.op = "calculateNextRetry", !.result = "ok",
                          !.args = <<attemptCount, now, r,
                                     calculateNextRetry(attemptCount, now, r)>>]]
  /\ UNCHANGED <<now, customers, secrets, nextSecret, deliveries, sent, wire, events>>
  /\ UNCHANGED <<rateLimitStore, admitted>>

BackoffNext ==
  \/ \E w \in Workers, n \in AttemptNumbers, r \in RandomValues :
       CallCalculateNextRetry(w, n, r)
  \/ \E w \in Workers : Return(w)
  \/ Tick

BackoffSpec == EmptyInit /\ [][BackoffNext]_vars

(***************************************************************************)
(* Signature verification: WebhookService.validateSignature and            *)
(* verifyWebhookSignature of lib/webhook-signature.  Both are synchronous  *)
(* pure functions; they are applied to signature texts of every shape.     *)
(***************************************************************************)

\* Characters of the hex digest of an HMAC-SHA256.
DIGEST_HEX == 64

\* A signature text: the first `digits` characters of the hex digest of mac,
\* with or without the "sha256=" prefix in front.
SignatureTexts(macs) ==
  [prefix : BOOLEAN, digits : {0, 2, DIGEST_HEX - 1, DIGEST_HEX}, mac : macs]

\* generateSignature's string: the hex digest.
HexDigest(mac) == [prefix |-> FALSE, digits |-> DIGEST_HEX, mac |-> mac]

\* generateWebhookSignature: `sha256=${hmac.digest("hex")}`.
generateWebhookSignature(payload, secret) ==
  [prefix |-> TRUE, digits |-> DIGEST_HEX, mac |-> generateSignature(payload, secret)]

\* Buffer.from(text, "hex").length: decoding stops at the first character
\* that is no hex digit (the "s" of a prefix) and drops an odd last digit.
hexByteLength(text) == IF text.prefix THEN 0 ELSE text.digits \div 2

\* Buffer.from(text).length: one byte per character.
utf8ByteLength(text) == (IF text.prefix THEN 7 ELSE 0) + text.digits

\* validateSignature: crypto.timingSafeEqual throws a RangeError when its two
\* buffers differ in byte length.
validateSignature(payload, signature, secret) ==
  LET expectedSignature == HexDigest(generateSignature(payload, secret)) IN
  IF hexByteLength(signature) # hexByteLength(expectedSignature) THEN "RangeError"
  ELSE IF signature.mac = expectedSignature.mac THEN "true"
  ELSE "false"

\* verifyWebhookSignature: compares the texts byte by byte, inside try/catch.
verifyWebhookSignature(payload, signature, secret) ==
  LET expectedSignature == generateWebhookSignature(payload, secret) IN
  IF utf8ByteLength(signature) # utf8ByteLength(expectedSignature) THEN "false"
  ELSE IF signature = expectedSignature THEN "true"
  ELSE "false"

\* The payload strings, secrets and signature texts the functions are given.
VerifyPayloads == {JsonStringify(testPayload(0)), JsonStringify(testPayload(TickMs))}
VerifySecrets == {randomSecret(0), randomSecret(1)}
VerifySignatures ==
  SignatureTexts({generateSignature(p, k) : p \in VerifyPayloads, k \in VerifySecrets})

CallValidateSignature(w, payload, signature, secret) ==
  /\ worker[w].pc = "idle"
  /\ worker' = [worker EXCEPT ![w] =
       [IdleWorker EXCEPT !.pc = "done", !.op = "validateSignature",
                          !.args = <<payload, signature, secret>>,
                          !.result = validateSignature(payload, signature, secret)]]
  /\ UNCHANGED <<now, customers, secrets, nextSecret, deliveries, sent, wire, events>>
  /\ UNCHANGED <<rateLimitStore, admitted>>

CallVerifyWebhookSignature(w, payload, signature, secret) ==
  /\ worker[w].pc = "idle"
  /\ worker' = [worker EXCEPT ![w] =
       [IdleWorker EXCEPT !.pc = "done", !.op = "verifyWebhookSignature",
                          !.args = <<payload, signature, secret>>,
                          !.result = verifyWebhookSignature(payload, signature, secret)]]
  /\ UNCHANGED <<now, customers, secrets, nextSecret, deliveries, sent, wire, events>>
  /\ UNCHANGED <<rateLimitStore, admitted>>

VerifyNext ==
  \/ \E w \in Workers, p \in VerifyPayloads, t \in VerifySignatures, k \in VerifySecrets :
       CallValidateSignature(w, p, t, k)
  \/ \E w \in Workers, p \in VerifyPayloads, t \in VerifySignatures, k \in VerifySecrets :
       CallVerifyWebhookSignature(w, p, t, k)
  \/ \E w \in Workers : Return(w)

VerifySpec == EmptyInit /\ [][VerifyNext]_vars

(***************************************************************************)
(* lib/rate-limit: the limiter in front of POST /api/webhook/{id}/order.   *)
(***************************************************************************)

\* webhookRateLimit's config.
WebhookRateLimitConfig == [windowMs |-> 60 * 1000, maxRequests |-> 100]

\* Source addresses (x-forwarded-for) of the requests.
IPs == {"198.51.100.1", "198.51.100.2"}

\* The order submissions the endpoint receives: for one customer, from
\* either address.
OrderRequests == [customerId : {"c1"}, ip : IPs]

\* getDefaultKey(request): the request's address.
getDefaultKey(request) == request.ip

\* webhookRateLimit's keyGenerator: `webhook:${customerId}:${ip}`.
webhookKeyGenerator(request) == <<"webhook", request.customerId, getDefaultKey(request)>>

\* The limiter createRateLimit(config) returns, applied at time t to a request
\* with the given key: the store it leaves and whether it answers 429.
createRateLimit(config, key, store, t) ==
  LET live      == {k \in DOMAIN store : ~(t > store[k].resetTime)}
      cleaned   == [k \in live |-> store[k]]
      windowKey == <<key, t \div config.windowMs>>
      current   == IF windowKey \in live
                     THEN cleaned[windowKey]
                     ELSE [count |-> 0, resetTime |-> t + config.windowMs]
  IN IF current.count >= config.maxRequests
       THEN [limited |-> TRUE, store |-> cleaned]
       ELSE [limited |-> FALSE,
             store |-> [k \in live \cup {windowKey} |->
                          IF k = windowKey
                            THEN [current EXCEPT !.count = @ + 1]
                            ELSE cleaned[k]]]

\* POST /api/webhook/{customerId}/order up to the limiter's answer: 429, or
\* the request goes on to authentication and processing.
WebhookRateLimit(request) ==
  LET out == createRateLimit(WebhookRateLimitConfig, webhookKeyGenerator(request),
                             rateLimitStore, now)
      c   == request.customerId
  IN
  /\ rateLimitStore' = out.store
  /\ admitted' =
       IF out.limited THEN admitted
       ELSE [admitted EXCEPT ![c] =
               IF @.at = now THEN [@ EXCEPT !.count = @ + 1]
                             ELSE [at |-> now, count |-> 1]]
  /\ UNCHANGED <<now, customers, secrets, nextSecret, deliveries, worker, sent, wire, events>>

RateNext ==
  \/ \E request \in OrderRequests : WebhookRateLimit(request)
  \/ Tick

RateSpec == EmptyInit /\ [][RateNext]_vars

(***************************************************************************)
(* Claims.                                                                 *)
(***************************************************************************)

\* The stored row of w's delivery is no longer the one w read: another
\* attempt has written it since.
Advanced(w) ==
  LET id == worker[w].deliveryId IN
  \/ deliveries[id].attemptCount # worker[w].delivery.attemptCount
  \/ IsCompleted(deliveries[id].status)

\* C1: attemptDelivery is a conditional update: when the row a worker read has
\* been advanced by another worker before the worker's own write, the step
\* that ends the worker's attempt changes nothing in the store.
C1_LosingWriteIsNoOp ==
  [][\A w \in Workers :
       (worker[w].pc = "attempt_update" /\ worker'[w] # worker[w] /\ Advanced(w))
         => deliveries' = deliveries]_vars

\* C2: a delivery whose status is SUCCESS or ABANDONED never changes again.
C2_TerminalIsImmutable ==
  [][\A d \in DeliveryIds :
       IsCompleted(deliveries[d].status) => deliveries'[d] = deliveries[d]]_vars

\* C3: a delivery none of whose requests was answered with success has had at
\* most MAX_RETRIES requests sent for it, and exactly MAX_RETRIES once it is
\* ABANDONED.
C3_RetryCeiling ==
  \A d \in DeliveryIds :
    ~sent[d].succeeded =>
      /\ sent[d].requests <= MAX_RETRIES
      /\ deliveries[d].status = "ABANDONED" => sent[d].requests = MAX_RETRIES

\* C4: the signature header of every request is the MAC of the body that the
\* request carries.
C4_SignatureCoversBodySent ==
  wire # NoRequest =>
    wire.signature = SignatureHeader(generateSignature(wire.body, wire.signature.hex.key))

\* C5: no delivery has more attempts than its maximum.
C5_AttemptCountBounded ==
  \A d \in DeliveryIds : deliveries[d].attemptCount <= deliveries[d].maxRetries

\* C5 witness: an attempt was written for a delivery that stood one attempt
\* below its maximum.
C5_Witness ==
  \E d \in DeliveryIds :
    /\ deliveries[d].attemptCount = deliveries[d].maxRetries
    /\ wire # NoRequest /\ wire.deliveryId = d

\* C6: a SUCCESS delivery has completedAt set and nextRetryAt null.
C6_SuccessShape ==
  \A d \in DeliveryIds :
    deliveries[d].status = "SUCCESS" =>
      deliveries[d].completedAt # Null /\ deliveries[d].nextRetryAt = Null

\* C6 witness: a delivery succeeded on a retry, that is after a nextRetryAt
\* had been scheduled for it.
C6_Witness ==
  \E d \in DeliveryIds :
    deliveries[d].status = "SUCCESS" /\ deliveries[d].attemptCount >= 2

\* C7: an ABANDONED delivery has completedAt set, nextRetryAt null and as
\* many attempts as its maximum.
C7_AbandonedShape ==
  \A d \in DeliveryIds :
    deliveries[d].status = "ABANDONED" =>
      /\ deliveries[d].completedAt # Null
      /\ deliveries[d].nextRetryAt = Null
      /\ deliveries[d].attemptCount = deliveries[d].maxRetries

\* C7 witness: a delivery was abandoned by an attempt of this run.
C7_Witness ==
  \E d \in DeliveryIds :
    /\ deliveries[d].status = "ABANDONED"
    /\ wire # NoRequest /\ wire.deliveryId = d

\* C8: a PENDING or RETRYING delivery has completedAt null.
C8_OpenHasNoCompletedAt ==
  \A d \in DeliveryIds :
    deliveries[d].status \in {"PENDING", "RETRYING"} => deliveries[d].completedAt = Null

\* C8 witness: a delivery is RETRYING although one of its requests was
\* answered with success (a failed attempt was written over the success).
C8_Witness ==
  \E d \in DeliveryIds : deliveries[d].status = "RETRYING" /\ sent[d].succeeded

\* The delivery waits for a retry time that lies beyond the last clock
\* advance of the run.
ParkedBeyondHorizon(d) ==
  /\ deliveries[d].status = "RETRYING"
  /\ events = MaxEvents
  /\ deliveries[d].nextRetryAt > now

\* C9: every persisted delivery eventually reaches SUCCESS or ABANDONED (or,
\* in a run of bounded length, is left scheduled for a retry that is due
\* after the run's last clock advance).
C9_NoLossOfInFlightWork ==
  \A d \in 1..MaxDeliveries :
    [](d \in DeliveryIds =>
         <>(d \in DeliveryIds
              /\ (IsCompleted(deliveries[d].status) \/ ParkedBeyondHorizon(d))))

\* C10: a deliverWebhook call that found notifications disabled for the
\* order's customer has ended with BAD_REQUEST and has created no secret, no
\* delivery and sent no request.
C10_DisabledClientRejected ==
  \A w \in Workers :
    (worker[w].op = "deliver" /\ worker[w].order # NoOrder
       /\ ~worker[w].order.customer.webhookNotifications)
      => /\ worker[w].pc = "done"
         /\ worker[w].result = "BAD_REQUEST"
         /\ worker[w].effects = {}

\* C10 witness: a deliverWebhook call for an order of the customer with
\* notifications disabled has returned to its caller.
C10_Witness ==
  \E w \in Workers :
    /\ worker[w].op = "deliver" /\ worker[w].pc = "done"
    /\ worker[w].order # NoOrder
    /\ ~worker[w].order.customer.webhookNotifications
    /\ secrets[worker[w].customerId] = NoSecret

\* HTTP requests sent for w's delivery by handlers other than w's.
OtherRequests(w) ==
  sent[worker[w].deliveryId].requests - (IF "http" \in worker[w].effects THEN 1 ELSE 0)

C12_AttemptOnTerminalIsNoOp ==
  [][\A w \in Workers :
       (/\ worker[w].pc = "attempt_find"
        /\ worker[w].deliveryId \in DeliveryIds
        /\ deliveries[worker[w].deliveryId].status \in {"SUCCESS", "ABANDONED"}
        /\ worker'[w] # worker[w])
         => /\ deliveries' = deliveries
            /\ sent' = sent
            /\ wire' = wire
            /\ worker'[w].pc # "attempt_update"
            /\ worker'[w].effects = worker[w].effects]_vars

\* C12 witness: a retryDelivery call for a SUCCESS or ABANDONED row has
\* returned without having sent a request.
C12_Witness ==
  \E w \in Workers :
    /\ worker[w].op = "retry" /\ worker[w].pc = "done" /\ worker[w].result = "ok"
    /\ "http" \notin worker[w].effects
    /\ worker[w].deliveryId \in DeliveryIds
    /\ deliveries[worker[w].deliveryId].status \in {"SUCCESS", "ABANDONED"}

\* C13: webhookUrl, payload and signature of a delivery never change, and
\* every request sent for a delivery goes to the row's webhookUrl with the
\* row's payload as body and the row's signature in the header, whatever the
\* customer's webhook URL is by then.
C13_AttemptsSendFrozenContent ==
  /\ [][\A d \in DeliveryIds :
          /\ deliveries'[d].webhookUrl = deliveries[d].webhookUrl
          /\ deliveries'[d].payload = deliveries[d].payload
          /\ deliveries'[d].signature = deliveries[d].signature]_vars
  /\ [](\A d \in DeliveryIds :
          (wire # NoRequest /\ wire.deliveryId = d)
            => /\ wire.url = deliveries[d].webhookUrl
               /\ wire.body = JsonStringify(deliveries[d].payload)
               /\ wire.signature = SignatureHeader(deliveries[d].signature))

\* C13 witness: a retry of a delivery is on the wire while the customer's
\* webhook URL is no longer the one the delivery was created with.
C13_Witness ==
  \E w \in Workers :
    /\ worker[w].pc = "attempt_update"
    /\ worker[w].delivery.attemptCount >= 1
    /\ wire # NoRequest /\ wire.deliveryId = worker[w].deliveryId
    /\ customers[worker[w].delivery.customerId].webhookUrl # worker[w].delivery.webhookUrl

C15_SecretImmutable ==
  /\ [][\A c \in Customers : secrets[c] # NoSecret => secrets'[c] = secrets[c]]_vars
  /\ [](\A w \in Workers :
          worker[w].signature # NoSignature
            => worker[w].signature.key = secrets[worker[w].customerId])
  /\ [](\A d \in DeliveryIds :
          deliveries[d].signature.key = secrets[deliveries[d].customerId])

\* C15 witness: a handler has signed with a secret that it found stored, not
\* one it created.
C15_Witness ==
  \E w \in Workers :
    /\ worker[w].signature # NoSignature
    /\ "secret" \notin worker[w].effects
    /\ worker[w].signature.key = secrets[worker[w].customerId]

\* C18: no step of a testWebhookEndpoint call changes the delivery table.
C18_TestTouchesNoDelivery ==
  [][\A w \in Workers :
       (worker[w].op = "test" /\ worker'[w] # worker[w]) => deliveries' = deliveries]_vars

\* C18 witness: a testWebhookEndpoint call has sent its request and returned,
\* whatever the endpoint answered.
C18_Witness ==
  \E w \in Workers :
    /\ worker[w].op = "test" /\ worker[w].pc = "done"
    /\ "http" \in worker[w].effects
    /\ worker[w].result = "test failed"

\* The endpoint completed an HTTP exchange with a 2xx status.
Answered2xx(behaviour) == behaviour \in {"http200", "http204"}

\* C16: whatever the endpoint does, sendWebhookRequest returns a result to
\* its caller, and the result is a success exactly when the endpoint
\* completed an exchange with a 2xx status: testWebhookEndpoint returns it,
\* attemptDelivery records the attempt and writes SUCCESS exactly then.
C16_SendReturnsOutcome ==
  [][\A w \in Workers :
       /\ (worker[w].pc = "test_send" /\ worker'[w].pc = "done")
            => \A b \in Behaviours :
                 worker'[w].result = (IF sendWebhookRequest(b).success
                                        THEN "test succeeded" ELSE "test failed")
                   => worker'[w].result =
                        IF Answered2xx(b) THEN "test succeeded" ELSE "test failed"
       /\ (worker[w].pc = "attempt_update" /\ worker'[w].pc # "attempt_update"
              /\ worker'[w].pc # "send_text" /\ events' = events)
            => LET id == worker[w].deliveryId IN
               /\ deliveries'[id].attemptCount = worker[w].delivery.attemptCount + 1
               /\ \A b \in Behaviours, r \in RandomSamples :
                    deliveries'[id] = AttemptWrite(deliveries[id], worker[w].delivery,
                                                   sendWebhookRequest(b), now, r)
                      => ((deliveries'[id].status = "SUCCESS") <=> Answered2xx(b))]_vars

\* C16 witness: an attempt whose response body could not be read has been
\* recorded as a failure.
C16_Witness ==
  \E d \in DeliveryIds :
    /\ deliveries[d].errorMessage = "terminated"
    /\ deliveries[d].status \in {"RETRYING", "ABANDONED"}

\* A handler is inside sendWebhookRequest.
Sending(w) == worker[w].pc \in {"attempt_update", "test_send", "send_text"}

\* C17: every sendWebhookRequest call returns: a handler that is inside it
\* eventually is not.
C17_SendTerminates ==
  \A w \in Workers : [](Sending(w) => <>(~Sending(w)))

\* C19: a deliverWebhook call that passed its guards and ended without having
\* stored its delivery (the secret or the delivery could not be persisted)
\* has ended with an error and has sent no request.
C19_StorageErrorPropagates ==
  \A w \in Workers :
    (/\ worker[w].op = "deliver" /\ worker[w].pc = "done"
     /\ worker[w].payload # << >>
     /\ "record" \notin worker[w].effects)
      => /\ worker[w].result \in {"INTERNAL_SERVER_ERROR", "DB_ERROR"}
         /\ "http" \notin worker[w].effects
         /\ worker[w].deliveryId = NoDelivery

\* C19 witness: webhookDelivery.create was rejected for a deliverWebhook call
\* that had got its secret.
C19_Witness ==
  \E w \in Workers :
    /\ worker[w].op = "deliver" /\ worker[w].pc = "done"
    /\ worker[w].signature # NoSignature
    /\ "record" \notin worker[w].effects
    /\ worker[w].result = "DB_ERROR"

\* C20: verification returns false, and does not throw, for a signature text
\* whose length is not that of the expected signature, and returns true for
\* the text the matching sign function produces for the payload and secret.
C20_VerifyLengthMismatchIsFalse ==
  \A w \in Workers :
    /\ (worker[w].op = "validateSignature" /\ worker[w].pc = "done") =>
         LET payload   == worker[w].args[1]
             signature == worker[w].args[2]
             secret    == worker[w].args[3]
         IN /\ utf8ByteLength(signature) # DIGEST_HEX => worker[w].result = "false"
            /\ signature = HexDigest(generateSignature(payload, secret))
                 => worker[w].result = "true"
    /\ (worker[w].op = "verifyWebhookSignature" /\ worker[w].pc = "done") =>
         LET payload   == worker[w].args[1]
             signature == worker[w].args[2]
             secret    == worker[w].args[3]
         IN /\ utf8ByteLength(signature) # DIGEST_HEX + 7 => worker[w].result = "false"
            /\ signature = generateWebhookSignature(payload, secret)
                 => worker[w].result = "true"

\* Order submissions admitted for customer c in the minute that ends now.  The
\* clock advances by more than a minute at a time, so these are the ones
\* admitted at the present instant.
AdmittedInLastMinute(c) ==
  IF now - admitted[c].at < WebhookRateLimitConfig.windowMs /\ admitted[c].at <= now
    THEN admitted[c].count ELSE 0

\* C21: for each customer, at most 100 order submissions are admitted within
\* one minute, whatever addresses they come from.
C21_RateLimitPerCustomer ==
  \A c \in Customers : AdmittedInLastMinute(c) <= 100

\* The edges of a delivery's status: PENDING to SUCCESS or RETRYING, RETRYING
\* to RETRYING, SUCCESS or ABANDONED.
StatusEdges ==
  {<<"PENDING", "SUCCESS">>, <<"PENDING", "RETRYING">>, <<"RETRYING", "RETRYING">>,
   <<"RETRYING", "SUCCESS">>, <<"RETRYING", "ABANDONED">>}

\* C22: whenever a delivery row is written, its status moves along one of the
\* status edges (or stays what it is), and a row left RETRYING has fewer
\* attempts than its maximum and a nextRetryAt.
C22_StatusEdgesOnly ==
  [][\A d \in DeliveryIds :
       /\ deliveries'[d].status # deliveries[d].status
            => <<deliveries[d].status, deliveries'[d].status>> \in StatusEdges
       /\ (deliveries'[d] # deliveries[d] /\ deliveries'[d].status = "RETRYING")
            => /\ deliveries'[d].nextRetryAt # Null
               /\ deliveries'[d].attemptCount < deliveries'[d].maxRetries]_vars

\* C23: the step that ends an attempt's HTTP exchange and writes its outcome
\* raises the stored attemptCount by exactly one, so that the count is the
\* number of requests whose outcome has been written.
C23_AttemptCountCountsRequests ==
  [][\A w \in Workers :
       (worker[w].pc = "attempt_update" /\ worker'[w].pc # "attempt_update"
          /\ worker'[w].pc # "send_text" /\ events' = events)
         => deliveries'[worker[w].deliveryId].attemptCount =
              deliveries[worker[w].deliveryId].attemptCount + 1]_vars

\* The batch a sweep holds after its query: the delivery it attempts first
\* and the ones queued behind it.
SweepBatch(wr) == IF wr.pc = "attempt_find" THEN <<wr.deliveryId>> \o wr.queue ELSE << >>

C25_SweepSurvivesRecordError ==
  /\ [][\A w \in Workers :
          (/\ worker[w].op = "sweep"
           /\ worker[w].pc \in {"attempt_find", "attempt_update"}
           /\ worker'[w] # worker[w]
           /\ events' = events + 1)
            => IF worker[w].queue = << >>
                 THEN worker'[w].pc = "done" /\ worker'[w].result = "ok"
                 ELSE /\ worker'[w].pc = "attempt_find"
                      /\ worker'[w].deliveryId = Head(worker[w].queue)
                      /\ worker'[w].queue = Tail(worker[w].queue)]_vars
  /\ [](\A w \in Workers :
          (worker[w].op = "sweep" /\ worker[w].pc = "done"
             /\ worker[w].deliveryId # NoDelivery)
            => worker[w].result = "ok" /\ worker[w].queue = << >>)

\* C25 witness: a sweep has sent the request for the last row of its batch
\* although its attempt of the row before, which is still due, threw.
C25_Witness ==
  \E w \in Workers :
    /\ worker[w].op = "sweep" /\ worker[w].pc = "attempt_update"
    /\ worker[w].queue = << >>
    /\ \E d \in DeliveryIds \ {worker[w].deliveryId} :
         /\ deliveries[d].status = "RETRYING"
         /\ deliveries[d].nextRetryAt <= now
    /\ \A v \in Workers \ {w} : worker[v].pc = "idle"

\* The base delay, in seconds, the documented sequence 1, 2, 4, 8, 16, 32,
\* 60, 60, ... has before the retry that follows the n-th failed attempt.
DocumentedBaseDelay(n) == IF n <= 6 THEN Pow2(n - 1) ELSE 60

\* C26: an attempt that fails as the n-th one of its delivery and leaves it
\* RETRYING schedules the retry between the n-th delay of the sequence 1 s,
\* 2 s, 4 s, 8 s, 16 s, 32 s, 60 s, ... and that delay plus 10 % after now.
C26_BackoffSequence ==
  [][\A d \in DeliveryIds :
       (deliveries'[d] # deliveries[d] /\ deliveries'[d].status = "RETRYING")
         => LET base == DocumentedBaseDelay(deliveries'[d].attemptCount) IN
            /\ deliveries'[d].nextRetryAt >= now + base * 1000
            /\ deliveries'[d].nextRetryAt <= now + base * 1100]_vars

\* The base delays, in seconds, for attempt numbers 0 to 5.
DoublingDelays == <<1, 2, 4, 8, 16, 32>>

\* C27: calculateNextRetry(n) returns now + d, where d is at least the base
\* delay and at most 110 % of it, the base delay being 1, 2, 4, 8, 16, 32
\* seconds for n = 0..5 and 60 seconds for every n >= 6; the result is
\* never before now and never more than 66 seconds after it.
C27_BackoffBounds ==
  \A w \in Workers :
    (worker[w].op = "calculateNextRetry" /\ worker[w].pc = "done") =>
      LET n      == worker[w].args[1]
          t      == worker[w].args[2]
          result == worker[w].args[4]
          base   == IF n <= 5 THEN DoublingDelays[n + 1] ELSE 60
      IN /\ result >= t + base * 1000
         /\ result <= t + base * 1100
         /\ result >= t
         /\ result <= t + 66000

\* C27 witness: calculateNextRetry was called with an attempt number whose
\* power of two exceeds the clamp, and with the largest jitter.
C27_Witness ==
  \E w \in Workers :
    /\ worker[w].op = "calculateNextRetry" /\ worker[w].pc = "done"
    /\ worker[w].args[1] >= 6
    /\ worker[w].args[3] = 999
    /\ worker[w].args[4] = worker[w].args[2] + 65994

\* What a column holds of an outcome's field: null where the outcome has none.
NullIfUndefined(v) == IF v = Undefined THEN Null ELSE v
NullStrIfUndefined(v) == IF v = UndefinedStr THEN NullStr ELSE v

\* C28: the row an attempt writes holds that attempt's outcome: its HTTP
\* status (null when there was none), its response body and its error
\* message (null when there was none).
C28_DiagnosticsOfLastAttempt ==
  [][\A w \in Workers :
       (worker[w].pc = "attempt_update" /\ worker'[w].pc # "attempt_update"
          /\ worker'[w].pc # "send_text" /\ events' = events)
         => LET id == worker[w].deliveryId IN
            \A b \in Behaviours, r \in RandomSamples :
              deliveries'[id] = AttemptWrite(deliveries[id], worker[w].delivery,
                                             sendWebhookRequest(b), now, r)
                => /\ deliveries'[id].httpStatus = NullIfUndefined(sendWebhookRequest(b).status)
                   /\ deliveries'[id].responseBody =
                        NullStrIfUndefined(sendWebhookRequest(b).responseBody)
                   /\ deliveries'[id].errorMessage =
                        NullStrIfUndefined(sendWebhookRequest(b).error)]_vars

\* C29: the customerId of every delivery is the customer of the delivery's
\* order, whose webhook URL and notifications flag deliverWebhook used, and
\* the delivery's signature was computed with that customer's secret.
C29_DeliveryClientConsistent ==
  \A d \in DeliveryIds :
    LET owner == OrderRows[deliveries[d].orderId].customerId IN
    /\ deliveries[d].customerId = owner
    /\ deliveries[d].signature.key = secrets[owner]

\* C30: the step that ends a regenerateSecret call either reports success
\* and leaves the customer with the secret the call generated, or reports an
\* error and leaves the customer with the secret it had before the call.
C30_RegenerateAtomic ==
  [][\A w \in Workers :
       (worker[w].op = "regenerate" /\ worker[w].pc = "regen_create"
          /\ worker'[w].pc = "done")
         => IF worker'[w].result = "ok"
              THEN /\ secrets'[worker[w].customerId] # NoSecret
                   /\ secrets'[worker[w].customerId] # worker[w].args[1]
                   /\ secrets'[worker[w].customerId] = worker'[w].args[2]
              ELSE secrets'[worker[w].customerId] = worker[w].args[1]]_vars

====
